---- MODULE Spec2Model ----
(***************************************************************************)
(* Model of the @dexilion/cde launcher (src/src/index.js): loading the     *)
(* persisted configuration, gathering missing fields through discovery and *)
(* prompts, persisting, revalidating the address, and launching.           *)
(*                                                                         *)
(* JavaScript values are modelled as strings.  Undef stands for            *)
(* `undefined` (a key missing from an object), Null for `null`.            *)
(***************************************************************************)
EXTENDS Integers, Sequences, FiniteSets, TLC

\* ------------------------------------------------------------------------
\* Bounds of the model
\* ------------------------------------------------------------------------
\* number of consecutive invocations of the tool on the same home directory
MaxRuns == 2

\* number of network interfaces networkInterfaces() reports
MaxIfaces == 3

\* number of address-bearing items in the output of one command
MaxItems == 2

\* ------------------------------------------------------------------------
\* JavaScript values
\* ------------------------------------------------------------------------
Undef == "<undefined>"
Null == "<null>"

\* JavaScript truthiness of the values the configuration can hold
Falsy(v) == v \in {Undef, Null, ""}

\* a truthy value that is not a string, such as a number read from the file
NotAString == "<number>"

\* typeof v === 'string'
IsString(v) == v \notin {Undef, Null, NotAString}

\* a || b
Or(a, b) == IF Falsy(a) THEN b ELSE a

\* The characters of the texts that can reach String.prototype.trim and the
\* address pattern.  Texts outside the table are paths, which hold no blank,
\* no digit-only part and no leading or trailing white space.
Chars(s) ==
  CASE s = "" -> << >>
    [] s = " " -> <<" ">>
    [] s = "10.0.0.5" -> <<"1", "0", ".", "0", ".", "0", ".", "5">>
    [] s = "10.0.0.9" -> <<"1", "0", ".", "0", ".", "0", ".", "9">>
    [] s = "256.1.1.1" -> <<"2", "5", "6", ".", "1", ".", "1", ".", "1">>
    [] s = "1.2.3" -> <<"1", ".", "2", ".", "3">>
    [] s = "/s" -> <<"/", "s">>
    [] s = "/k" -> <<"/", "k">>
    [] s = "127.0.0.1" -> <<"1", "2", "7", ".", "0", ".", "0", ".", "1">>
    [] s = "169.254.1.2" -> <<"1", "6", "9", ".", "2", "5", "4", ".", "1", ".", "2">>
    [] s = "172.17.0.1" -> <<"1", "7", "2", ".", "1", "7", ".", "0", ".", "1">>
    [] s = "192.168.1.42" -> <<"1", "9", "2", ".", "1", "6", "8", ".", "1", ".", "4", "2">>
    [] s = "fe80::1" -> <<"f", "e", "8", "0", ":", ":", "1">>
    [] s = "999.1.1.1" -> <<"9", "9", "9", ".", "1", ".", "1", ".", "1">>
    [] s = "abc.def.1.1" -> <<"a", "b", "c", ".", "d", "e", "f", ".", "1", ".", "1">>
    [] s = "1.2.3.4.5" -> <<"1", ".", "2", ".", "3", ".", "4", ".", "5">>
    [] s = "01.2.3.4" -> <<"0", "1", ".", "2", ".", "3", ".", "4">>
    [] s = "255.255.255.255" ->
         <<"2", "5", "5", ".", "2", "5", "5", ".", "2", "5", "5", ".", "2", "5", "5">>
    [] s = "10.0.0.5 " -> <<"1", "0", ".", "0", ".", "0", ".", "5", " ">>
    [] s = "127." -> <<"1", "2", "7", ".">>
    [] s = "169.254." -> <<"1", "6", "9", ".", "2", "5", "4", ".">>
    [] s = "lo" -> <<"l", "o">>
    [] s = "docker0" -> <<"d", "o", "c", "k", "e", "r", "0">>
    [] s = "eth0" -> <<"e", "t", "h", "0">>
    [] s = "eth1" -> <<"e", "t", "h", "1">>
    [] s = "enp3s0" -> <<"e", "n", "p", "3", "s", "0">>
    [] s = "Wlan0" -> <<"W", "l", "a", "n", "0">>
    [] s = "wlan0" -> <<"w", "l", "a", "n", "0">>
    [] s = "eth" -> <<"e", "t", "h">>
    [] s = "en" -> <<"e", "n">>
    [] s = "wlan" -> <<"w", "l", "a", "n">>
    [] s = "wifi" -> <<"w", "i", "f", "i">>
    [] s = "ethernet" -> <<"e", "t", "h", "e", "r", "n", "e", "t">>
    [] s = "src" -> <<"s", "r", "c">>
    [] s = "inet" -> <<"i", "n", "e", "t">>
    [] s = "IPv4" -> <<"I", "P", "v", "4">>
    [] OTHER -> <<"/", "p">>

Texts == {"", " ", "10.0.0.5", "10.0.0.9", "256.1.1.1", "1.2.3", "/s", "/k"}

RECURSIVE TrimLeft(_)
TrimLeft(cs) == IF cs # << >> /\ Head(cs) = " " THEN TrimLeft(Tail(cs)) ELSE cs

RECURSIVE TrimRight(_)
TrimRight(cs) ==
  IF cs # << >> /\ cs[Len(cs)] = " " THEN TrimRight(SubSeq(cs, 1, Len(cs) - 1)) ELSE cs

\* String.prototype.trim
Trim(s) ==
  IF s \in Texts
  THEN CHOOSE t \in Texts : Chars(t) = TrimRight(TrimLeft(Chars(s)))
  ELSE s

Digits == {"0", "1", "2", "3", "4", "5", "6", "7", "8", "9"}

\* (?:25[0-5]|2[0-4][0-9]|[01]?[0-9][0-9]?) against a whole part
OctetMatches(o) ==
  \/ Len(o) = 3 /\ o[1] = "2" /\ o[2] = "5" /\ o[3] \in {"0", "1", "2", "3", "4", "5"}
  \/ Len(o) = 3 /\ o[1] = "2" /\ o[2] \in {"0", "1", "2", "3", "4"} /\ o[3] \in Digits
  \/ Len(o) = 3 /\ o[1] \in {"0", "1"} /\ o[2] \in Digits /\ o[3] \in Digits
  \/ Len(o) = 2 /\ o[1] \in Digits /\ o[2] \in Digits
  \/ Len(o) = 1 /\ o[1] \in Digits

\* the parts of a text between its dots
RECURSIVE SplitDots(_, _)
SplitDots(cs, cur) ==
  IF cs = << >> THEN <<cur>>
  ELSE IF Head(cs) = "." THEN <<cur>> \o SplitDots(Tail(cs), << >>)
  ELSE SplitDots(Tail(cs), Append(cur, Head(cs)))

\* ipRegex.test(ip)
ipRegexTest(ip) ==
  LET parts == SplitDots(Chars(ip), << >>)
  IN  Len(parts) = 4 /\ \A i \in 1..4 : OctetMatches(parts[i])

\* ------------------------------------------------------------------------
\* Host environment
\* ------------------------------------------------------------------------
\* process.platform
Platforms == {"win32", "cygwin", "linux", "darwin"}

getOS(p) == IF p \in {"win32", "cygwin"} THEN "windows" ELSE p

\* how a spawnSync call can end
ProbeOutcomes == {"exit0", "nonzero", "timeout", "spawnfail"}

\* result.status (null is -1)
NullStatus == 0 - 1
StatusOf(o) ==
  CASE o = "exit0" -> 0 [] o = "nonzero" -> 1 [] o = "exit125" -> 125 [] OTHER -> NullStatus

\* result.error is set
HasError(o) == o \in {"timeout", "spawnfail"}

\* how the interactive container run can end
RunOutcomes == {"exit0", "nonzero", "exit125", "spawnfail", "signal"}

\* what the user types at the socket prompt
SocketAnswers == {"", " ", "/s"}

\* what the user types at an address prompt
AddressAnswers == {"", " ", "10.0.0.9", "256.1.1.1"}

\* what the user types at the SSH directory prompt
SshAnswers == {"", " ", "/k"}

\* what getExternalIP can return
ExternalIPResults == {Null, "10.0.0.5"}

\* what getSshDirectory can return
SshDirectoryResults == {Null, "~/.ssh"}

\* ------------------------------------------------------------------------
\* The persisted file and the configuration object
\* ------------------------------------------------------------------------
EmptyObject == [dockerSocket |-> Undef, sshKeysDir |-> Undef, externalIP |-> Undef]

FileKinds == {"absent", "nonjson", "array", "scalar", "null", "object"}

FileOf(kind, obj) ==
  [kind |-> kind, dockerSocket |-> obj.dockerSocket,
   sshKeysDir |-> obj.sshKeysDir, externalIP |-> obj.externalIP]

\* the JSON objects a first run can find in the file
InitialObjects ==
  [dockerSocket : {Undef, "", "/var/run/docker.sock"},
   sshKeysDir : {Undef, "/k"},
   externalIP : {Undef, "", "10.0.0.5", "256.1.1.1"}]

InitialFiles ==
  {FileOf(k, EmptyObject) : k \in FileKinds \ {"object"}}
    \cup {FileOf("object", o) : o \in InitialObjects}

\* a loader that only rejects text that is not JSON
getConfigAnyJson(f) ==
  CASE f.kind = "object" ->
         [threw |-> FALSE, isNull |-> FALSE,
          value |-> [dockerSocket |-> f.dockerSocket, sshKeysDir |-> f.sshKeysDir,
                     externalIP |-> f.externalIP]]
    [] f.kind = "nonjson" -> [threw |-> TRUE, isNull |-> FALSE, value |-> EmptyObject]
    [] f.kind = "null" -> [threw |-> FALSE, isNull |-> TRUE, value |-> EmptyObject]
    [] OTHER -> [threw |-> FALSE, isNull |-> FALSE, value |-> EmptyObject]

\* a loader that reads the file without testing that it exists
getConfigNoExistsTest(f) ==
  CASE f.kind = "object" ->
         [threw |-> FALSE, isNull |-> FALSE,
          value |-> [dockerSocket |-> f.dockerSocket, sshKeysDir |-> f.sshKeysDir,
                     externalIP |-> f.externalIP]]
    [] OTHER -> [threw |-> TRUE, isNull |-> FALSE, value |-> EmptyObject]

\* getConfig: "throw" for a malformed file, Null for an absent one
getConfig(f) ==
  CASE f.kind = "absent" -> [threw |-> FALSE, isNull |-> TRUE, value |-> EmptyObject]
    [] f.kind = "object" ->
         [threw |-> FALSE, isNull |-> FALSE,
          value |-> [dockerSocket |-> f.dockerSocket, sshKeysDir |-> f.sshKeysDir,
                     externalIP |-> f.externalIP]]
    [] OTHER -> [threw |-> TRUE, isNull |-> FALSE, value |-> EmptyObject]

\* JSON.stringify then JSON.parse of one property: an undefined value drops
\* the key, which reads back as undefined
JsonProperty(v) == IF v = Undef THEN Undef ELSE v

\* a writer that leaves the optional key out
saveConfigDataNoSsh(c) ==
  [kind |-> "object",
   dockerSocket |-> JsonProperty(c.dockerSocket),
   sshKeysDir |-> Undef,
   externalIP |-> JsonProperty(c.externalIP)]

\* the file content saveConfig writes
saveConfigData(c) ==
  [kind |-> "object",
   dockerSocket |-> JsonProperty(c.dockerSocket),
   sshKeysDir |-> JsonProperty(c.sshKeysDir),
   externalIP |-> JsonProperty(c.externalIP)]

\* a prompt that ignores its default
promptUserNoDefault(answer, defaultValue) == Trim(answer)

\* promptUser's resolved value
promptUser(answer, defaultValue) == Or(Trim(answer), defaultValue)

\* ------------------------------------------------------------------------
\* Socket discovery
\* ------------------------------------------------------------------------
defaultSocketPaths(p) ==
  <<"/var/run/docker.sock", "/run/docker.sock",
    "~/.docker/desktop/docker.sock", "/usr/local/var/run/docker.sock">>
  \o (IF getOS(p) # "windows"
      THEN <<"/run/user/UID/docker.sock", "/run/user/UID/podman/podman.sock">>
      ELSE << >>)

\* a discovery that falls back to the standard path
getDockerSocketPathDefault(paths) == paths[1]

\* what getDockerSocketPath returns when no candidate validated (line 142)
getDockerSocketPathNone(paths) == Null

\* commandExists, from how the which/where probe ended
commandExists(whichOutcome) == StatusOf(whichOutcome) = 0

\* the executable checkDockerSocketAccess runs
dockerCommand(whichOutcome) == IF commandExists(whichOutcome) THEN "docker" ELSE "podman"

\* checkDockerSocketAccess, from how the version round trip ended
checkDockerSocketAccess(runOutcome) == StatusOf(runOutcome) = 0

\* ------------------------------------------------------------------------
\* Address availability
\* ------------------------------------------------------------------------
\* isIPAvailable without its format validation
isIPAvailableNoFormatCheck(ip, pingOutcome) ==
  IF Falsy(ip) \/ ~IsString(ip)
  THEN [pinged |-> FALSE, status |-> NullStatus, result |-> FALSE]
  ELSE [pinged |-> TRUE, status |-> StatusOf(pingOutcome),
        result |-> StatusOf(pingOutcome) = 0]

\* isIPAvailable, from how the ping ended: whether the ping was issued, its
\* exit status, and the value returned
isIPAvailable(ip, pingOutcome) ==
  IF Falsy(ip) \/ ~IsString(ip)
  THEN [pinged |-> FALSE, status |-> NullStatus, result |-> FALSE]
  ELSE IF ~ipRegexTest(ip)
  THEN [pinged |-> FALSE, status |-> NullStatus, result |-> FALSE]
  ELSE [pinged |-> TRUE, status |-> StatusOf(pingOutcome),
        result |-> StatusOf(pingOutcome) = 0]

\* ------------------------------------------------------------------------
\* State
\* ------------------------------------------------------------------------
VARIABLES
  platform,     \* process.platform of the host
  file,         \* content of ~/.dexilion.cde.conf
  run,          \* number of the current invocation
  pc,           \* position of main
  exitCode,     \* exit status of the process, NoExit while it runs
  config,       \* the config object of main
  sockIdx,      \* index of the candidate getDockerSocketPath probes next
  sockLog,      \* candidates probed by the current getDockerSocketPath call
  sockCmd,      \* executable of the latest checkDockerSocketAccess
  sockResult,   \* what getDockerSocketPath returned, Undef before it returns
  promptDefault, \* default value of the prompt that is open
  prompts,      \* prompts issued in this invocation, in order
  gathered,     \* fields Gather gave a non-empty value in this invocation
  writes,       \* number of saveConfig calls in this invocation
  availLog,     \* isIPAvailable calls of this invocation
  fileAtStart,  \* file content when this invocation started
  fileAtRevalidate, \* file content when revalidation started
  handed,       \* argument of runDockerContainer
  launched,     \* runDockerContainer was called
  steps,        \* subprocesses of the launch step, in order
  dockerBuild,  \* state of the docker build process
  podmanBuilds, \* states of the podman build processes spawned
  buildPromise, \* state of the promise buildDockerImage returned
  defaultsTaken, \* per prompt, the offered default the user accepted
  runLog,       \* the container runs made: executable, status, error
  nets,         \* what networkInterfaces() gives getExternalIP
  netPc,        \* position of getExternalIP
  cmdIdx,       \* index of the command getExternalIPCommandLine is at
  cmdFailed,    \* number of commands that gave no address so far
  netResult,    \* what getExternalIP returned
  netPass,      \* the stage of getExternalIP that returned
  returnedBy,   \* the command whose output gave the returned address
  availIp,      \* the argument of a call of isIPAvailable
  availPc,      \* position of that call
  availPings,   \* the ping subprocesses that call spawned
  availReturn,  \* what the call returned
  imageCheck    \* how the image inspections of checkDockerImageExists ended

vars ==
  <<platform, file, run, pc, exitCode, config, sockIdx, sockLog, sockCmd,
    sockResult, promptDefault, prompts, gathered, writes, availLog, fileAtStart,
    fileAtRevalidate, handed, launched, steps, dockerBuild, podmanBuilds, buildPromise,
    defaultsTaken, runLog, nets, netPc, cmdIdx, cmdFailed, netResult, netPass,
    returnedBy, availIp, availPc, availPings, availReturn, imageCheck>>

availVars == <<availIp, availPc, availPings, availReturn>>

netVars == <<nets, netPc, cmdIdx, cmdFailed, netResult, netPass, returnedBy>>

sockVars == <<sockIdx, sockLog, sockCmd, sockResult>>

launchVars ==
  <<handed, launched, steps, dockerBuild, podmanBuilds, buildPromise, runLog, imageCheck>>

NoExit == 0 - 1

\* checkDockerImageExists was not called
NotInspected == [docker |-> "notrun", podman |-> "notrun"]

\* no prompt was answered by accepting its default
NoDefaults == [dockerSocket |-> Undef, externalIP |-> Undef, replaceIP |-> Undef]

\* the default of a prompt when the trimmed answer is empty (line 335)
DefaultTaken(answer, defaultValue) ==
  IF Trim(answer) = "" THEN defaultValue ELSE Undef

\* the state of a process that has just started
StartOfRun ==
  /\ pc = "start"
  /\ exitCode = NoExit
  /\ config = EmptyObject
  /\ sockIdx = 0
  /\ sockLog = << >>
  /\ sockCmd = "none"
  /\ sockResult = Undef
  /\ promptDefault = ""
  /\ prompts = << >>
  /\ gathered = {}
  /\ writes = 0
  /\ availLog = << >>
  /\ fileAtRevalidate = FileOf("absent", EmptyObject)
  /\ handed = EmptyObject
  /\ launched = FALSE
  /\ steps = << >>
  /\ dockerBuild = "none"
  /\ podmanBuilds = << >>
  /\ buildPromise = "none"
  /\ defaultsTaken = NoDefaults
  /\ runLog = << >>
  /\ imageCheck = NotInspected

\* no command has returned an address
NoCommand == [cmd |-> "none", outcome |-> "none", output |-> << >>]

\* getExternalIP is not being examined
NetIdle ==
  /\ nets = [threw |-> FALSE, list |-> << >>]
  /\ netPc = "idle"
  /\ cmdIdx = 0
  /\ cmdFailed = 0
  /\ netResult = Undef
  /\ netPass = "none"
  /\ returnedBy = NoCommand

\* isIPAvailable is not being examined
AvailIdle ==
  /\ availIp = Undef
  /\ availPc = "idle"
  /\ availPings = << >>
  /\ availReturn = Undef

Init ==
  /\ platform \in Platforms
  /\ file \in InitialFiles
  /\ fileAtStart = file
  /\ run = 1
  /\ StartOfRun
  /\ NetIdle
  /\ AvailIdle

\* process.exit(code), or the end of the process
Exit(code) ==
  /\ pc' = "exited"
  /\ exitCode' = code

\* ------------------------------------------------------------------------
\* main: Load
\* ------------------------------------------------------------------------
\* a condition that also opens Gather for the optional field
NeedsGatherAnyField(c) ==
  Falsy(c.externalIP) \/ Falsy(c.dockerSocket) \/ Falsy(c.sshKeysDir)

\* the condition that opens Gather (line 745); config is never falsy there
NeedsGather(c) == Falsy(c.externalIP) \/ Falsy(c.externalIP)

\* lines 743-747 and 756: load the file and decide where main goes; an error
\* thrown by getConfig rejects main(), which ends the process with status 1
Load ==
  /\ pc = "start"
  /\ LET loaded == getConfig(file)
         c == IF loaded.isNull THEN EmptyObject ELSE loaded.value
     IN  IF loaded.threw
         THEN /\ Exit(1)
              /\ UNCHANGED <<config, sockIdx>>
         ELSE /\ config' = c
              /\ exitCode' = exitCode
              /\ IF NeedsGather(c)
                 THEN IF Falsy(c.dockerSocket)
                      THEN pc' = "sockProbe" /\ sockIdx' = 1
                      ELSE pc' = "ipDiscover" /\ sockIdx' = sockIdx
                 ELSE pc' = "revalidate" /\ sockIdx' = sockIdx
  /\ UNCHANGED <<platform, netVars, availVars, defaultsTaken, file, run, sockLog, sockCmd, sockResult, promptDefault, prompts,
                 gathered, writes, availLog, fileAtStart, fileAtRevalidate>>
  /\ UNCHANGED launchVars

\* ------------------------------------------------------------------------
\* main: Gather
\* ------------------------------------------------------------------------
\* a discovery loop that probes every candidate and keeps the first valid one
ProbeSocketNoEarlyExit ==
  /\ pc = "sockProbe"
  /\ \E whichOutcome \in ProbeOutcomes, runOutcome \in ProbeOutcomes :
       LET paths == defaultSocketPaths(platform)
           socketPath == paths[sockIdx]
           kept == IF sockResult # Undef THEN sockResult
                   ELSE IF checkDockerSocketAccess(runOutcome) THEN socketPath
                   ELSE Undef
       IN  /\ sockCmd' = dockerCommand(whichOutcome)
           /\ sockLog' = Append(sockLog, [path |-> socketPath, status |-> StatusOf(runOutcome)])
           /\ IF sockIdx = Len(paths)
              THEN /\ sockResult' = IF kept = Undef THEN getDockerSocketPathNone(paths) ELSE kept
                   /\ promptDefault' = Or(sockResult', "")
                   /\ prompts' = Append(prompts, "dockerSocket")
                   /\ pc' = "promptSocket"
                   /\ sockIdx' = sockIdx
              ELSE /\ sockIdx' = sockIdx + 1
                   /\ sockResult' = kept
                   /\ pc' = pc
                   /\ UNCHANGED <<promptDefault, prompts>>
  /\ UNCHANGED <<platform, netVars, availVars, defaultsTaken, file, run, exitCode, config, gathered, writes,
                 availLog, fileAtStart, fileAtRevalidate>>
  /\ UNCHANGED launchVars

\* one iteration of the loop of getDockerSocketPath (lines 136-142); when the
\* call returns, the socket prompt opens with its result as default (line 748)
ProbeSocket ==
  /\ pc = "sockProbe"
  /\ \E whichOutcome \in ProbeOutcomes, runOutcome \in ProbeOutcomes :
       LET paths == defaultSocketPaths(platform)
           socketPath == paths[sockIdx]
           returns == checkDockerSocketAccess(runOutcome) \/ sockIdx = Len(paths)
           result == IF checkDockerSocketAccess(runOutcome)
                     THEN socketPath
                     ELSE getDockerSocketPathNone(paths)
       IN  /\ sockCmd' = dockerCommand(whichOutcome)
           /\ sockLog' = Append(sockLog, [path |-> socketPath, status |-> StatusOf(runOutcome)])
           /\ IF returns
              THEN /\ sockResult' = result
                   /\ promptDefault' = Or(result, "")
                   /\ prompts' = Append(prompts, "dockerSocket")
                   /\ pc' = "promptSocket"
                   /\ sockIdx' = sockIdx
              ELSE /\ sockIdx' = sockIdx + 1
                   /\ pc' = pc
                   /\ UNCHANGED <<sockResult, promptDefault, prompts>>
  /\ UNCHANGED <<platform, netVars, availVars, defaultsTaken, file, run, exitCode, config, gathered, writes,
                 availLog, fileAtStart, fileAtRevalidate>>
  /\ UNCHANGED launchVars

\* the answer to the socket prompt arrives (lines 748-753)
AnswerSocket ==
  /\ pc = "promptSocket"
  /\ \E answer \in SocketAnswers :
       LET v == promptUser(answer, promptDefault)
       IN  /\ config' = [config EXCEPT !.dockerSocket = v]
           /\ defaultsTaken' =
                [defaultsTaken EXCEPT !.dockerSocket = DefaultTaken(answer, promptDefault)]
           /\ gathered' = IF Falsy(v) THEN gathered ELSE gathered \cup {"dockerSocket"}
           /\ IF Falsy(v) THEN Exit(1) ELSE pc' = "ipDiscover" /\ exitCode' = exitCode
  /\ sockIdx' = 0
  /\ sockLog' = << >>
  /\ sockCmd' = "none"
  /\ sockResult' = Undef
  /\ promptDefault' = ""
  /\ UNCHANGED <<platform, netVars, availVars, file, run, prompts, writes, availLog, fileAtStart, fileAtRevalidate>>
  /\ UNCHANGED launchVars

\* lines 756-757: getExternalIP, then the address prompt opens
DiscoverIP ==
  /\ pc = "ipDiscover"
  /\ IF Falsy(config.externalIP)
     THEN \E found \in ExternalIPResults :
            /\ promptDefault' = Or(found, "")
            /\ prompts' = Append(prompts, "externalIP")
            /\ pc' = "promptIP"
     ELSE /\ pc' = "sshDiscover"
          /\ UNCHANGED <<promptDefault, prompts>>
  /\ UNCHANGED <<platform, netVars, availVars, defaultsTaken, file, run, exitCode, config, sockVars,
                 gathered, writes, availLog, fileAtStart, fileAtRevalidate>>
  /\ UNCHANGED launchVars

\* an address prompt whose empty result is not fatal
AnswerIPNotFatal ==
  /\ pc = "promptIP"
  /\ \E answer \in AddressAnswers :
       LET v == promptUser(answer, promptDefault)
       IN  /\ config' = [config EXCEPT !.externalIP = v]
           /\ defaultsTaken' =
                [defaultsTaken EXCEPT !.externalIP = DefaultTaken(answer, promptDefault)]
           /\ gathered' = IF Falsy(v) THEN gathered ELSE gathered \cup {"externalIP"}
  /\ pc' = "sshDiscover"
  /\ promptDefault' = ""
  /\ UNCHANGED <<platform, netVars, availVars, file, run, exitCode, sockVars, prompts, writes,
                 availLog, fileAtStart, fileAtRevalidate>>
  /\ UNCHANGED launchVars

\* an address prompt that asks again after an empty answer
AnswerIPAsksAgain ==
  /\ pc = "promptIP"
  /\ \E answer \in AddressAnswers :
       LET v == promptUser(answer, promptDefault)
       IN  /\ config' = [config EXCEPT !.externalIP = v]
           /\ defaultsTaken' =
                [defaultsTaken EXCEPT !.externalIP = DefaultTaken(answer, promptDefault)]
           /\ gathered' = IF Falsy(v) THEN gathered ELSE gathered \cup {"externalIP"}
           /\ pc' = IF Falsy(v) THEN "ipDiscover" ELSE "sshDiscover"
  /\ promptDefault' = ""
  /\ UNCHANGED <<platform, netVars, availVars, file, run, exitCode, sockVars, prompts, writes,
                 availLog, fileAtStart, fileAtRevalidate>>
  /\ UNCHANGED launchVars

\* the answer to the address prompt arrives (lines 757-762)
AnswerIP ==
  /\ pc = "promptIP"
  /\ \E answer \in AddressAnswers :
       LET v == promptUser(answer, promptDefault)
       IN  /\ config' = [config EXCEPT !.externalIP = v]
           /\ defaultsTaken' =
                [defaultsTaken EXCEPT !.externalIP = DefaultTaken(answer, promptDefault)]
           /\ gathered' = IF Falsy(v) THEN gathered ELSE gathered \cup {"externalIP"}
           /\ IF Falsy(v) THEN Exit(1) ELSE pc' = "sshDiscover" /\ exitCode' = exitCode
  /\ promptDefault' = ""
  /\ UNCHANGED <<platform, netVars, availVars, file, run, sockVars, prompts, writes,
                 availLog, fileAtStart, fileAtRevalidate>>
  /\ UNCHANGED launchVars

\* lines 765-775: getSshDirectory; a directory found is taken without asking
DiscoverSsh ==
  /\ pc = "sshDiscover"
  /\ \E sshKeysDir \in SshDirectoryResults :
       IF Falsy(sshKeysDir)
       THEN /\ prompts' = Append(prompts, "sshKeysDir")
            /\ pc' = "promptSsh"
            /\ UNCHANGED <<config, gathered>>
       ELSE /\ config' = [config EXCEPT !.sshKeysDir = sshKeysDir]
            /\ gathered' = gathered \cup {"sshKeysDir"}
            /\ pc' = "save"
            /\ prompts' = prompts
  /\ promptDefault' = ""
  /\ UNCHANGED <<platform, netVars, availVars, defaultsTaken, file, run, exitCode, sockVars, writes,
                 availLog, fileAtStart, fileAtRevalidate>>
  /\ UNCHANGED launchVars

\* the answer to the SSH directory prompt arrives (lines 769-772)
AnswerSsh ==
  /\ pc = "promptSsh"
  /\ \E answer \in SshAnswers, exists \in BOOLEAN :
       LET sshKeysDir == promptUser(answer, "")
       IN  IF ~Falsy(sshKeysDir) /\ exists
           THEN /\ config' = [config EXCEPT !.sshKeysDir = sshKeysDir]
                /\ gathered' = gathered \cup {"sshKeysDir"}
           ELSE UNCHANGED <<config, gathered>>
  /\ pc' = "save"
  /\ UNCHANGED <<platform, netVars, availVars, defaultsTaken, file, run, exitCode, sockVars,
                 promptDefault, prompts, writes, availLog, fileAtStart, fileAtRevalidate>>
  /\ UNCHANGED launchVars

\* ------------------------------------------------------------------------
\* main: Persist
\* ------------------------------------------------------------------------
\* line 778: saveConfig overwrites the file with the three known keys
SaveConfig ==
  /\ pc = "save"
  /\ file' = saveConfigData(config)
  /\ writes' = writes + 1
  /\ pc' = "revalidate"
  /\ UNCHANGED <<platform, netVars, availVars, defaultsTaken, run, exitCode, config, sockVars,
                 promptDefault, prompts, gathered, availLog, fileAtStart, fileAtRevalidate>>
  /\ UNCHANGED launchVars

\* ------------------------------------------------------------------------
\* main: Revalidate address
\* ------------------------------------------------------------------------
\* lines 783-785: isIPAvailable; when it says no, getExternalIP runs and the
\* replacement prompt opens
Revalidate ==
  /\ pc = "revalidate"
  /\ fileAtRevalidate' = file
  /\ \E pingOutcome \in ProbeOutcomes :
       LET ip == config.externalIP
           check == isIPAvailable(ip, pingOutcome)
       IN  /\ availLog' = Append(availLog,
                 [ip |-> ip, pinged |-> check.pinged, status |-> check.status,
                  result |-> check.result])
           /\ IF ~check.result
              THEN \E found \in ExternalIPResults :
                     /\ promptDefault' = Or(found, ip)
                     /\ prompts' = Append(prompts, "replaceIP")
                     /\ pc' = "promptReplace"
              ELSE /\ pc' = "launch"
                   /\ UNCHANGED <<promptDefault, prompts>>
  /\ UNCHANGED <<platform, netVars, availVars, defaultsTaken, file, run, exitCode, config, sockVars,
                 gathered, writes, fileAtStart>>
  /\ UNCHANGED launchVars

\* a replacement prompt that persists the corrected address
AnswerReplaceSaves ==
  /\ pc = "promptReplace"
  /\ \E answer \in AddressAnswers :
       /\ config' = [config EXCEPT !.externalIP = promptUser(answer, promptDefault)]
       /\ defaultsTaken' =
            [defaultsTaken EXCEPT !.replaceIP = DefaultTaken(answer, promptDefault)]
       /\ file' = saveConfigData(config')
  /\ promptDefault' = ""
  /\ pc' = "launch"
  /\ UNCHANGED <<platform, netVars, availVars, run, exitCode, sockVars, prompts,
                 gathered, writes, availLog, fileAtStart, fileAtRevalidate>>
  /\ UNCHANGED launchVars

\* the answer to the replacement prompt arrives (line 785)
AnswerReplace ==
  /\ pc = "promptReplace"
  /\ \E answer \in AddressAnswers :
       /\ config' = [config EXCEPT !.externalIP = promptUser(answer, promptDefault)]
       /\ defaultsTaken' =
            [defaultsTaken EXCEPT !.replaceIP = DefaultTaken(answer, promptDefault)]
  /\ promptDefault' = ""
  /\ pc' = "launch"
  /\ UNCHANGED <<platform, netVars, availVars, file, run, exitCode, sockVars, prompts,
                 gathered, writes, availLog, fileAtStart, fileAtRevalidate>>
  /\ UNCHANGED launchVars

\* ------------------------------------------------------------------------
\* runDockerContainer
\* ------------------------------------------------------------------------
\* the docker inspect is followed by a podman inspect when it failed
checkDockerImageExistsUsesPodman(dockerOutcome) ==
  HasError(dockerOutcome) \/ StatusOf(dockerOutcome) # 0

\* what an image inspection says: the image is there when it exits with 0
Inspected(outcome) == IF StatusOf(outcome) = 0 THEN "found" ELSE "missing"

\* an image check that takes the image for granted
checkDockerImageExistsAssumed(dockerOutcome, podmanOutcome) == TRUE

\* checkDockerImageExists, from how the two inspections ended
checkDockerImageExists(dockerOutcome, podmanOutcome) ==
  LET result == IF checkDockerImageExistsUsesPodman(dockerOutcome)
                THEN podmanOutcome ELSE dockerOutcome
  IN  StatusOf(result) = 0

\* what findDockerBuildDirectory can return
BuildDirectoryResults == {Null, "/pkg"}

\* an exit status that forgets the status of the container run
RunExitCodeAlwaysOne(status) == 1

\* process.exit(result.status || 1)
RunExitCode(status) == IF status = NullStatus \/ status = 0 THEN 1 ELSE status

\* lines 793 and 589-593: main hands config over; the image is looked up
Launch ==
  /\ pc = "launch"
  /\ handed' = config
  /\ launched' = TRUE
  /\ \E dockerOutcome \in ProbeOutcomes, podmanOutcome \in ProbeOutcomes :
       /\ steps' = steps \o <<"docker inspect">>
                     \o (IF checkDockerImageExistsUsesPodman(dockerOutcome)
                         THEN <<"podman inspect">> ELSE << >>)
       /\ imageCheck' =
            [docker |-> Inspected(dockerOutcome),
             podman |-> IF checkDockerImageExistsUsesPodman(dockerOutcome)
                        THEN Inspected(podmanOutcome) ELSE "notrun"]
       /\ pc' = IF checkDockerImageExists(dockerOutcome, podmanOutcome)
                THEN "run" ELSE "build"
  /\ UNCHANGED <<platform, netVars, availVars, defaultsTaken, file, run, exitCode, config, sockVars, promptDefault,
                 prompts, gathered, writes, availLog, fileAtStart, fileAtRevalidate>>
  /\ UNCHANGED <<dockerBuild, podmanBuilds, buildPromise, runLog>>

\* lines 388-414 and 598-600: buildDockerImage starts the docker build, or
\* throws when no build directory is found
BuildStart ==
  /\ pc = "build"
  /\ \E buildDirectory \in BuildDirectoryResults :
       IF Falsy(buildDirectory)
       THEN /\ Exit(1)
            /\ UNCHANGED <<steps, dockerBuild, buildPromise>>
       ELSE /\ steps' = Append(steps, "docker build")
            /\ dockerBuild' = "running"
            /\ buildPromise' = "pending"
            /\ pc' = "building"
            /\ exitCode' = exitCode
  /\ UNCHANGED <<platform, netVars, availVars, defaultsTaken, file, run, config, sockVars, promptDefault, prompts,
                 gathered, writes, availLog, fileAtStart, fileAtRevalidate>>
  /\ UNCHANGED <<imageCheck, handed, launched, podmanBuilds, runLog>>

\* resolve(): the awaiting runDockerContainer goes on to the container run
Resolve ==
  /\ buildPromise' = "resolved"
  /\ pc' = "run"
  /\ exitCode' = exitCode

\* reject(): the catch of runDockerContainer exits (lines 598-600)
Reject ==
  /\ buildPromise' = "rejected"
  /\ Exit(1)

\* spawn('podman', buildArgs)
SpawnPodmanBuild ==
  /\ podmanBuilds' = Append(podmanBuilds, "running")
  /\ steps' = Append(steps, "podman build")

\* dockerProcess 'close' (lines 427-496)
DockerBuildClose ==
  /\ pc = "building"
  /\ dockerBuild \in {"running", "errored"}
  /\ \E code \in {0, 1} :
       /\ dockerBuild = "errored" => code # 0
       /\ dockerBuild' = "closed"
       /\ IF code = 0
          THEN Resolve /\ UNCHANGED <<podmanBuilds, steps>>
          ELSE SpawnPodmanBuild /\ UNCHANGED <<pc, exitCode, buildPromise>>
  /\ UNCHANGED <<platform, netVars, availVars, defaultsTaken, file, run, config, sockVars, promptDefault, prompts,
                 gathered, writes, availLog, fileAtStart, fileAtRevalidate>>
  /\ UNCHANGED <<imageCheck, handed, launched, runLog>>

\* dockerProcess 'error' (lines 498-553)
DockerBuildError ==
  /\ pc = "building"
  /\ dockerBuild = "running"
  /\ dockerBuild' = "errored"
  /\ SpawnPodmanBuild
  /\ UNCHANGED <<platform, netVars, availVars, defaultsTaken, file, run, pc, exitCode, config, sockVars, promptDefault,
                 prompts, gathered, writes, availLog, fileAtStart, fileAtRevalidate>>
  /\ UNCHANGED <<imageCheck, handed, launched, buildPromise, runLog>>

\* podmanProcess 'close' (lines 458-478 and 525-545)
PodmanBuildClose ==
  /\ pc = "building"
  /\ \E i \in DOMAIN podmanBuilds, podmanCode \in {0, 1} :
       /\ podmanBuilds[i] \in {"running", "errored"}
       /\ podmanBuilds[i] = "errored" => podmanCode # 0
       /\ podmanBuilds' = [podmanBuilds EXCEPT ![i] = "closed"]
       /\ IF podmanCode = 0 THEN Resolve ELSE Reject
  /\ UNCHANGED <<platform, netVars, availVars, defaultsTaken, file, run, config, sockVars, promptDefault, prompts,
                 gathered, writes, availLog, fileAtStart, fileAtRevalidate>>
  /\ UNCHANGED <<imageCheck, handed, launched, steps, dockerBuild, runLog>>

\* podmanProcess 'error' (lines 480-494 and 547-552)
PodmanBuildError ==
  /\ pc = "building"
  /\ \E i \in DOMAIN podmanBuilds :
       /\ podmanBuilds[i] = "running"
       /\ podmanBuilds' = [podmanBuilds EXCEPT ![i] = "errored"]
       /\ Reject
  /\ UNCHANGED <<platform, netVars, availVars, defaultsTaken, file, run, config, sockVars, promptDefault, prompts,
                 gathered, writes, availLog, fileAtStart, fileAtRevalidate>>
  /\ UNCHANGED <<imageCheck, handed, launched, steps, dockerBuild, runLog>>

\* line 637: the podman run is made when the docker run has result.error
RunUsesPodman(dockerOutcome) == HasError(dockerOutcome)

\* what spawnSync returned for one container run
RunEntry(cmd, outcome) ==
  [cmd |-> cmd, status |-> StatusOf(outcome), error |-> HasError(outcome)]

\* lines 604-646: the container run, with podman when docker cannot be spawned
RunContainer ==
  /\ pc = "run"
  /\ \E dockerOutcome \in RunOutcomes, podmanOutcome \in RunOutcomes :
       LET result == IF RunUsesPodman(dockerOutcome) THEN podmanOutcome ELSE dockerOutcome
       IN  /\ steps' = steps \o <<"docker run">>
                         \o (IF RunUsesPodman(dockerOutcome) THEN <<"podman run">> ELSE << >>)
           /\ runLog' = runLog \o <<RunEntry("docker", dockerOutcome)>>
                           \o (IF RunUsesPodman(dockerOutcome)
                               THEN <<RunEntry("podman", podmanOutcome)>> ELSE << >>)
           /\ IF StatusOf(result) # 0
              THEN Exit(RunExitCode(StatusOf(result)))
              ELSE pc' = "done" /\ exitCode' = 0
  /\ UNCHANGED <<platform, netVars, availVars, defaultsTaken, file, run, config, sockVars, promptDefault, prompts,
                 gathered, writes, availLog, fileAtStart, fileAtRevalidate>>
  /\ UNCHANGED <<imageCheck, handed, launched, dockerBuild, podmanBuilds, buildPromise>>

\* ------------------------------------------------------------------------
\* The next invocation of the tool
\* ------------------------------------------------------------------------
Restart ==
  /\ pc \in {"done", "exited"}
  /\ run < MaxRuns
  /\ run' = run + 1
  /\ pc' = "start"
  /\ exitCode' = NoExit
  /\ config' = EmptyObject
  /\ sockIdx' = 0
  /\ sockLog' = << >>
  /\ sockCmd' = "none"
  /\ sockResult' = Undef
  /\ promptDefault' = ""
  /\ prompts' = << >>
  /\ gathered' = {}
  /\ writes' = 0
  /\ availLog' = << >>
  /\ fileAtRevalidate' = FileOf("absent", EmptyObject)
  /\ handed' = EmptyObject
  /\ launched' = FALSE
  /\ steps' = << >>
  /\ dockerBuild' = "none"
  /\ podmanBuilds' = << >>
  /\ buildPromise' = "none"
  /\ defaultsTaken' = NoDefaults
  /\ runLog' = << >>
  /\ imageCheck' = NotInspected
  /\ fileAtStart' = file
  /\ UNCHANGED <<platform, netVars, availVars, file>>

Next ==
  \/ Load
  \/ ProbeSocket
  \/ AnswerSocket
  \/ DiscoverIP
  \/ AnswerIP
  \/ DiscoverSsh
  \/ AnswerSsh
  \/ SaveConfig
  \/ Revalidate
  \/ AnswerReplace
  \/ Launch
  \/ BuildStart
  \/ DockerBuildClose
  \/ DockerBuildError
  \/ PodmanBuildClose
  \/ PodmanBuildError
  \/ RunContainer
  \/ Restart

Spec == Init /\ [][Next]_vars

\* ------------------------------------------------------------------------
\* getExternalIP and getExternalIPCommandLine
\* ------------------------------------------------------------------------
\* os.networkInterfaces() entries
Addr(family, internal, address) ==
  [family |-> family, internal |-> internal, address |-> address]

\* the interfaces a host can report
Interfaces ==
  { [name |-> "lo", addrs |-> <<Addr("IPv4", TRUE, "127.0.0.1")>>],
    [name |-> "docker0", addrs |-> <<Addr("IPv4", FALSE, "172.17.0.1")>>],
    [name |-> "eth0", addrs |-> <<Addr("IPv6", FALSE, "fe80::1"),
                                  Addr("IPv4", FALSE, "10.0.0.5")>>],
    [name |-> "eth1", addrs |-> <<Addr("IPv6", FALSE, "fe80::1")>>],
    [name |-> "Wlan0", addrs |-> <<Addr("IPv4", FALSE, "192.168.1.42")>>],
    [name |-> "enp3s0", addrs |-> <<Addr("IPv4", FALSE, "10.0.0.9")>>] }

\* Object.keys(nets) in enumeration order: no name twice
InterfaceLists ==
  UNION { { l \in [1..n -> Interfaces] : \A i, j \in 1..n : i # j => l[i] # l[j] }
          : n \in 0..MaxIfaces }

\* networkInterfaces() returns a list or throws
NetInputs ==
  { [threw |-> FALSE, list |-> l] : l \in InterfaceLists }
    \cup { [threw |-> TRUE, list |-> << >>] }

\* name.toLowerCase() of the interface names above
toLowerCase(name) == IF name = "Wlan0" THEN "wlan0" ELSE name

\* String.prototype.startsWith
startsWith(s, prefix) ==
  LET cs == Chars(s)
      ps == Chars(prefix)
  IN  Len(ps) <= Len(cs) /\ SubSeq(cs, 1, Len(ps)) = ps

interfacePriority == <<"eth", "en", "wlan", "wifi", "ethernet">>

\* for (const addr of net): the first IPv4 address that is not internal
RECURSIVE FirstAccepted(_)
FirstAccepted(net) ==
  IF net = << >> THEN Undef
  ELSE IF Head(net).family = "IPv4" /\ ~Head(net).internal THEN Head(net).address
  ELSE FirstAccepted(Tail(net))

\* the inner loop of the first pass, for one priority
RECURSIVE ScanNames(_, _)
ScanNames(list, priority) ==
  IF list = << >> THEN Undef
  ELSE LET here == IF startsWith(toLowerCase(Head(list).name), priority)
                   THEN FirstAccepted(Head(list).addrs)
                   ELSE Undef
       IN  IF here # Undef THEN here ELSE ScanNames(Tail(list), priority)

\* the second pass: every interface in enumeration order
RECURSIVE SecondPass(_)
SecondPass(list) ==
  IF list = << >> THEN Undef
  ELSE IF FirstAccepted(Head(list).addrs) # Undef THEN FirstAccepted(Head(list).addrs)
  ELSE SecondPass(Tail(list))

RECURSIVE FirstPassFrom(_, _)
FirstPassFrom(list, k) ==
  IF k > Len(interfacePriority) THEN Undef
  ELSE IF ScanNames(list, interfacePriority[k]) # Undef
       THEN ScanNames(list, interfacePriority[k])
  ELSE FirstPassFrom(list, k + 1)

\* a first pass that does not look at the names
FirstPassAnyName(list) == SecondPass(list)

\* the first pass: priorities outermost, interfaces in enumeration order
FirstPass(list) == FirstPassFrom(list, 1)

\* the commands of getExternalIPCommandLine on this platform
commands(p) ==
  IF getOS(p) = "windows" THEN <<"ipconfig">>
  ELSE <<"hostname", "ip", "ifconfig", "route">>

\* how a command of the fallback can end: spawnSync can also throw
CommandOutcomes == ProbeOutcomes \cup {"throws"}

\* An output is a sequence of items, a word followed by a text: the word is
\* what precedes the text in the output ("" for a bare text).
OutputItems ==
  [key : {"", "src", "inet", "IPv4"},
   text : {"127.0.0.1", "169.254.1.2", "10.0.0.5", "fe80::1"}]

Outputs == UNION { [1..n -> OutputItems] : n \in 0..MaxItems }

\* [0-9]{1,3}\.[0-9]{1,3}\.[0-9]{1,3}\.[0-9]{1,3} against a whole text
DottedQuad(text) ==
  LET parts == SplitDots(Chars(text), << >>)
  IN  /\ Len(parts) = 4
      /\ \A i \in 1..4 :
           /\ Len(parts[i]) \in 1..3
           /\ \A k \in 1..Len(parts[i]) : parts[i][k] \in Digits

\* ip.startsWith('127.') || ip.startsWith('169.254.')
Excluded(ip) == startsWith(ip, "127.") \/ startsWith(ip, "169.254.")

\* the first text after the word `key` that has the dotted shape and, when
\* the branch tests it, is not excluded
RECURSIVE FirstMatch(_, _, _)
FirstMatch(output, key, testsExclusion) ==
  IF output = << >> THEN Undef
  ELSE IF /\ Head(output).key = key
          /\ DottedQuad(Head(output).text)
          /\ (testsExclusion => ~Excluded(Head(output).text))
       THEN Head(output).text
  ELSE FirstMatch(Tail(output), key, testsExclusion)

\* output.trim().split(/\s+/)
RECURSIVE SplitWhitespace(_)
SplitWhitespace(output) ==
  IF output = << >> THEN << >>
  ELSE (IF Head(output).key = "" THEN << >> ELSE <<Head(output).key>>)
         \o <<Head(output).text>> \o SplitWhitespace(Tail(output))

\* the loop over the tokens of hostname -I (lines 280-285)
RECURSIVE FirstToken(_)
FirstToken(ips) ==
  IF ips = << >> THEN Undef
  ELSE IF DottedQuad(Head(ips)) /\ ~Excluded(Head(ips)) THEN Head(ips)
  ELSE FirstToken(Tail(ips))

\* what the branch of a command takes from its output
Extract(cmd, output) ==
  CASE cmd = "ipconfig" -> FirstMatch(output, "IPv4", TRUE)
    [] cmd = "hostname" -> FirstToken(SplitWhitespace(output))
    [] cmd = "ip" -> FirstMatch(output, "src", FALSE)
    [] OTHER -> FirstMatch(output, "inet", TRUE)

\* the launcher itself is not running
MainIdle ==
  /\ file = FileOf("absent", EmptyObject)
  /\ fileAtStart = file
  /\ run = 1
  /\ pc = "idle"
  /\ exitCode = NoExit
  /\ config = EmptyObject
  /\ sockIdx = 0
  /\ sockLog = << >>
  /\ sockCmd = "none"
  /\ sockResult = Undef
  /\ promptDefault = ""
  /\ prompts = << >>
  /\ gathered = {}
  /\ writes = 0
  /\ availLog = << >>
  /\ fileAtRevalidate = FileOf("absent", EmptyObject)
  /\ handed = EmptyObject
  /\ launched = FALSE
  /\ steps = << >>
  /\ dockerBuild = "none"
  /\ podmanBuilds = << >>
  /\ buildPromise = "none"
  /\ defaultsTaken = NoDefaults
  /\ runLog = << >>
  /\ imageCheck = NotInspected

mainVars ==
  <<file, run, pc, exitCode, config, sockVars, promptDefault, prompts, gathered,
    writes, availLog, fileAtStart, fileAtRevalidate, launchVars, defaultsTaken>>

\* a call of getExternalIP on some host
InitNet ==
  /\ platform \in Platforms
  /\ nets \in NetInputs
  /\ netPc = "scan"
  /\ cmdIdx = 0
  /\ cmdFailed = 0
  /\ netResult = Undef
  /\ netPass = "none"
  /\ returnedBy = NoCommand
  /\ AvailIdle
  /\ MainIdle

\* lines 180-223: the two passes over the interfaces; when neither returns,
\* or when networkInterfaces threw, the command-line fallback is called
ScanInterfaces ==
  /\ netPc = "scan"
  /\ IF ~nets.threw /\ FirstPass(nets.list) # Undef
     THEN /\ netResult' = FirstPass(nets.list)
          /\ netPass' = "first"
          /\ netPc' = "returned"
          /\ cmdIdx' = cmdIdx
     ELSE IF ~nets.threw /\ SecondPass(nets.list) # Undef
     THEN /\ netResult' = SecondPass(nets.list)
          /\ netPass' = "second"
          /\ netPc' = "returned"
          /\ cmdIdx' = cmdIdx
     ELSE /\ netPc' = "cmdline"
          /\ cmdIdx' = 1
          /\ UNCHANGED <<netResult, netPass>>
  /\ UNCHANGED <<platform, nets, cmdFailed, returnedBy>>
  /\ UNCHANGED availVars
  /\ UNCHANGED mainVars

\* a fallback that gives up with an error when a command cannot be run
TryCommandPropagates ==
  /\ netPc = "cmdline"
  /\ \E outcome \in CommandOutcomes, output \in Outputs :
       LET cmd == commands(platform)[cmdIdx]
           found == IF StatusOf(outcome) = 0 /\ output # << >>
                    THEN Extract(cmd, output) ELSE Undef
       IN  IF outcome \in {"spawnfail", "throws"}
           THEN /\ netPc' = "crashed"
                /\ cmdFailed' = cmdFailed + 1
                /\ UNCHANGED <<netResult, netPass, returnedBy, cmdIdx>>
           ELSE IF found # Undef
           THEN /\ netResult' = found
                /\ netPass' = "cmdline"
                /\ returnedBy' = [cmd |-> cmd, outcome |-> outcome, output |-> output]
                /\ netPc' = "returned"
                /\ UNCHANGED <<cmdIdx, cmdFailed>>
           ELSE /\ cmdFailed' = cmdFailed + 1
                /\ returnedBy' = returnedBy
                /\ IF cmdIdx = Len(commands(platform))
                   THEN /\ netResult' = Null
                        /\ netPc' = "returned"
                        /\ UNCHANGED <<cmdIdx, netPass>>
                   ELSE /\ cmdIdx' = cmdIdx + 1
                        /\ UNCHANGED <<netResult, netPass, netPc>>
  /\ UNCHANGED <<platform, nets>>
  /\ UNCHANGED availVars
  /\ UNCHANGED mainVars

\* one command of getExternalIPCommandLine (lines 236-252 on Windows, one
\* iteration of the loop of lines 266-308 elsewhere); after the last command
\* the function returns null (lines 311 and 313)
TryCommand ==
  /\ netPc = "cmdline"
  /\ \E outcome \in CommandOutcomes, output \in Outputs :
       LET cmd == commands(platform)[cmdIdx]
           found == IF StatusOf(outcome) = 0 /\ output # << >>
                    THEN Extract(cmd, output) ELSE Undef
       IN  IF found # Undef
           THEN /\ netResult' = found
                /\ netPass' = "cmdline"
                /\ returnedBy' = [cmd |-> cmd, outcome |-> outcome, output |-> output]
                /\ netPc' = "returned"
                /\ UNCHANGED <<cmdIdx, cmdFailed>>
           ELSE /\ cmdFailed' = cmdFailed + 1
                /\ returnedBy' = returnedBy
                /\ IF cmdIdx = Len(commands(platform))
                   THEN /\ netResult' = Null
                        /\ netPc' = "returned"
                        /\ UNCHANGED <<cmdIdx, netPass>>
                   ELSE /\ cmdIdx' = cmdIdx + 1
                        /\ UNCHANGED <<netResult, netPass, netPc>>
  /\ UNCHANGED <<platform, nets>>
  /\ UNCHANGED availVars
  /\ UNCHANGED mainVars

NextNet ==
  \/ ScanInterfaces
  \/ TryCommand

SpecNet == InitNet /\ [][NextNet]_vars

\* the launcher on some host, or a call of getExternalIP on some host
InitProbes == Init \/ InitNet

NextProbes ==
  \/ Next
  \/ NextNet

SpecProbes == InitProbes /\ [][NextProbes]_vars

\* ------------------------------------------------------------------------
\* isIPAvailable on its own
\* ------------------------------------------------------------------------
\* the candidates isIPAvailable can be called with
Candidates ==
  {Undef, Null, NotAString, "", " ", "1.2.3", "1.2.3.4.5", "256.1.1.1", "999.1.1.1",
   "abc.def.1.1", "fe80::1", "10.0.0.5 ", "01.2.3.4", "10.0.0.5", "10.0.0.9",
   "192.168.1.42", "172.17.0.1", "127.0.0.1", "169.254.1.2", "255.255.255.255"}

\* how the ping can end: spawnSync can also throw
PingOutcomes == ProbeOutcomes \cup {"throws"}

\* the arguments of the ping on this platform (lines 669-681)
pingArgs(p, ip) ==
  IF getOS(p) = "windows" THEN <<"-n", "1", "-w", "1000", ip>>
  ELSE IF p = "darwin" THEN <<"-c", "1", "-W", "1000", ip>>
  ELSE <<"-c", "1", "-W", "1", ip>>

\* a call of isIPAvailable on some candidate
InitAvail ==
  /\ platform \in Platforms
  /\ availIp \in Candidates
  /\ availPc = "called"
  /\ availPings = << >>
  /\ availReturn = Undef
  /\ NetIdle
  /\ MainIdle

\* a check that spawns the ping before it looks at the candidate
CallIsIPAvailablePingsFirst ==
  /\ availPc = "called"
  /\ \E pingOutcome \in PingOutcomes :
       LET check == isIPAvailable(availIp, pingOutcome)
       IN  /\ availPings' = <<[cmd |-> "ping", args |-> pingArgs(platform, availIp),
                               outcome |-> pingOutcome]>>
           /\ availReturn' = check.result
  /\ availPc' = "returned"
  /\ UNCHANGED <<platform, availIp>>
  /\ UNCHANGED netVars
  /\ UNCHANGED mainVars

\* lines 655-696: the whole call
CallIsIPAvailable ==
  /\ availPc = "called"
  /\ \E pingOutcome \in PingOutcomes :
       LET check == isIPAvailable(availIp, pingOutcome)
       IN  /\ availPings' =
                IF check.pinged
                THEN <<[cmd |-> "ping", args |-> pingArgs(platform, availIp),
                        outcome |-> pingOutcome]>>
                ELSE << >>
           /\ availReturn' = check.result
  /\ availPc' = "returned"
  /\ UNCHANGED <<platform, availIp>>
  /\ UNCHANGED netVars
  /\ UNCHANGED mainVars

NextAvail == CallIsIPAvailable

SpecAvail == InitAvail /\ [][NextAvail]_vars

\* ------------------------------------------------------------------------
\* Reconciliation on its own: one run of main up to the launch step
\* ------------------------------------------------------------------------
NextReconcile ==
  \/ Load
  \/ ProbeSocket
  \/ AnswerSocket
  \/ DiscoverIP
  \/ AnswerIP
  \/ DiscoverSsh
  \/ AnswerSsh
  \/ SaveConfig
  \/ Revalidate
  \/ AnswerReplace
  \/ Launch

\* every spawnSync returns (each probe has a timeout or ends on its own) and
\* every prompt is answered: a step that can be taken is taken
SpecReconcile == Init /\ [][NextReconcile]_vars /\ WF_vars(NextReconcile)

\* ------------------------------------------------------------------------
\* Observations used by the properties
\* ------------------------------------------------------------------------
\* the fields a prompt was issued for in this invocation
Prompted == {prompts[i] : i \in DOMAIN prompts}

\* the configuration this invocation loaded
Loaded == getConfig(fileAtStart).value

Terminated == pc \in {"done", "exited"}

GatherPositions ==
  {"sockProbe", "promptSocket", "ipDiscover", "promptIP", "sshDiscover", "promptSsh", "save"}

\* the required fields Gather asked for
MandatoryPrompted == Prompted \cap {"dockerSocket", "externalIP"}

\* the record invariant of the data model
ValidRecord(f) ==
  /\ f.kind = "object"
  /\ ~Falsy(f.dockerSocket)
  /\ ~Falsy(f.externalIP)
  /\ ipRegexTest(f.externalIP)

\* ------------------------------------------------------------------------
\* Properties
\* ------------------------------------------------------------------------
\* C1: whenever runDockerContainer has been called, the configuration it
\* received has a non-empty dockerSocket and a non-empty externalIP.
C1_LaunchConfigPopulated ==
  launched => ~Falsy(handed.dockerSocket) /\ ~Falsy(handed.externalIP)

\* C2: for a format-valid address isIPAvailable returns false when the ping
\* exits with status 0 and true when the ping exits non-zero or fails.
C2_PingAnswerMeansInUse ==
  \A i \in DOMAIN availLog :
    availLog[i].pinged => (availLog[i].result <=> availLog[i].status # 0)

\* C3: when the echo probe against the configured externalIP exits with
\* status 0, the launch step is not reached without the replacement prompt
\* having been issued.
C3_InUseAddressReprompted ==
  (launched /\ availLog # << >> /\ availLog[1].pinged /\ availLog[1].status = 0)
    => "replaceIP" \in Prompted

\* C4 (as stated): the externalIP handed to runDockerContainer is a value on
\* which isIPAvailable was run in this invocation and returned true.
C4_HandedAddressWasChecked ==
  launched =>
    \E i \in DOMAIN availLog :
      availLog[i].ip = handed.externalIP /\ availLog[i].result

\* C4 (amended): when the launch step is reached, isIPAvailable ran exactly
\* once in this invocation; if no replacement prompt was issued the check
\* returned true for the very address handed over, which is format-valid and
\* was pinged; if the replacement prompt was issued the check had returned
\* false, and the answer is handed over without a second check.
C4_RevalidatedOrReplaced ==
  launched =>
    /\ Len(availLog) = 1
    /\ IF "replaceIP" \in Prompted
       THEN ~availLog[1].result
       ELSE /\ availLog[1].result
            /\ availLog[1].pinged
            /\ availLog[1].ip = handed.externalIP
            /\ ipRegexTest(handed.externalIP)

\* C4 witness: a launch with a replacement address that differs from the one
\* the check rejected.
C4_Witness ==
  /\ launched
  /\ "replaceIP" \in Prompted
  /\ availLog[1].ip # handed.externalIP
  /\ ipRegexTest(availLog[1].ip)

\* C5: a required field missing from the loaded configuration is gathered
\* in this invocation, and Gather is skipped when both are present.
C5_MissingFieldsGathered ==
  launched =>
    /\ Falsy(Loaded.dockerSocket) => "dockerSocket" \in gathered
    /\ Falsy(Loaded.externalIP) => "externalIP" \in gathered
    /\ (~Falsy(Loaded.dockerSocket) /\ ~Falsy(Loaded.externalIP))
         => (gathered = {} /\ MandatoryPrompted = {} /\ writes = 0)

\* C6: every record saveConfig writes has a non-empty dockerSocket and an
\* externalIP that passes the dotted-quad validation, so a file that was
\* absent or valid before an invocation is absent or valid after it.
C6_PersistedRecordValid ==
  /\ writes > 0 => ValidRecord(file)
  /\ (fileAtStart.kind = "absent" \/ ValidRecord(fileAtStart))
       => (file.kind = "absent" \/ ValidRecord(file))

\* C7: getDockerSocketPath returns a path only if checkDockerSocketAccess got
\* exit status 0 for that path in this call, and returns null when no
\* candidate got exit status 0.
C7_OnlyValidatedSocket ==
  sockResult # Undef =>
    IF \E i \in DOMAIN sockLog : sockLog[i].status = 0
    THEN \E i \in DOMAIN sockLog : sockLog[i].path = sockResult /\ sockLog[i].status = 0
    ELSE sockResult = Null

\* C7 witness: the second candidate is returned after the first one failed.
C7_Witness ==
  /\ sockResult = "/run/docker.sock"
  /\ Len(sockLog) = 2
  /\ sockLog[1].status # 0

\* C8 (as stated): at the end of an invocation the file has been written if
\* and only if a field was newly gathered, and at most once.
C8_WrittenIffGathered ==
  /\ writes <= 1
  /\ Terminated => (writes > 0 <=> gathered # {})

\* C8 (amended): the file is written at most once, as the whole record, and
\* only after Gather has completed; at the end of an invocation it has been
\* written if and only if Gather asked for a required field and every
\* required field it asked for got a non-empty value.  An invocation that
\* gathers one field and then exits for lack of the other writes nothing.
C8_WrittenIffGatherCompleted ==
  /\ writes <= 1
  /\ writes = 1 =>
       /\ pc \notin GatherPositions
       /\ MandatoryPrompted # {}
       /\ MandatoryPrompted \subseteq gathered
       /\ file.kind = "object"
       /\ file.dockerSocket = config.dockerSocket
       /\ file.sshKeysDir = config.sshKeysDir
       /\ availLog = << >> => file = saveConfigData(config)
  /\ (Terminated /\ MandatoryPrompted # {} /\ MandatoryPrompted \subseteq gathered)
       => writes = 1

\* C8 witness: an invocation that gathered all three fields and wrote them.
C8_Witness ==
  /\ pc = "done"
  /\ writes = 1
  /\ gathered = {"dockerSocket", "externalIP", "sshKeysDir"}
  /\ file # fileAtStart

\* C9: from the start of revalidation on, the file holds what it held when
\* revalidation started, also after a replacement address was supplied.
C9_RevalidationLeavesFile ==
  availLog # << >> => file = fileAtRevalidate

\* C9 witness: an invocation ended with a replacement address in use while
\* the file still holds the address that was rejected.
C9_Witness ==
  /\ pc = "done"
  /\ "replaceIP" \in Prompted
  /\ file.kind = "object"
  /\ file.externalIP = availLog[1].ip
  /\ handed.externalIP # file.externalIP

\* C10: once a required prompt has resolved to an empty value the process
\* has exited with status 1, the file is untouched and no launch step ran;
\* whatever is answered at the SSH directory prompt, Gather goes on to save.
C10_MissingMandatoryIsFatal ==
  /\ (\/ "dockerSocket" \in Prompted /\ pc # "promptSocket" /\ Falsy(config.dockerSocket)
      \/ "externalIP" \in Prompted /\ pc # "promptIP" /\ Falsy(config.externalIP))
       => /\ pc = "exited"
          /\ exitCode = 1
          /\ writes = 0
          /\ file = fileAtStart
          /\ ~launched
          /\ steps = << >>
  /\ ("sshKeysDir" \in Prompted /\ pc # "promptSsh") => (pc = "save" \/ writes = 1)

\* C10 witness: the socket was gathered, then the address prompt resolved to
\* an empty value and the process exited.
C10_Witness ==
  /\ pc = "exited"
  /\ "dockerSocket" \in gathered
  /\ "externalIP" \in Prompted
  /\ Falsy(config.externalIP)

\* C11: when the file exists and holds text that is not JSON, a JSON array,
\* a JSON scalar or JSON null, getConfig throws instead of returning null or
\* an object, and the invocation ends without Gather, write or launch.
C11_MalformedFileIsFatal ==
  fileAtStart.kind \in {"nonjson", "array", "scalar", "null"} =>
    /\ getConfig(fileAtStart).threw
    /\ pc \in {"start", "exited"}
    /\ config = EmptyObject
    /\ prompts = << >>
    /\ gathered = {}
    /\ sockLog = << >>
    /\ writes = 0
    /\ file = fileAtStart
    /\ ~launched
    /\ steps = << >>

\* C11 witness: an invocation that found a JSON array in the file has ended.
C11_Witness ==
  /\ fileAtStart.kind = "array"
  /\ pc = "exited"

\* C12: when the file does not exist, getConfig returns null without
\* throwing, main starts from the empty configuration, and no invocation
\* gets past Gather without both required fields gathered.
C12_AbsentFileIsEmptyConfig ==
  fileAtStart.kind = "absent" =>
    /\ ~getConfig(fileAtStart).threw
    /\ getConfig(fileAtStart).isNull
    /\ pc # "start" =>
         /\ pc = "sockProbe" \/ "dockerSocket" \in Prompted
         /\ pc = "exited" /\ ~launched => \E f \in MandatoryPrompted : Falsy(config[f])
         /\ pc \notin (GatherPositions \cup {"exited"}) \/ launched
              => {"dockerSocket", "externalIP"} \subseteq gathered

\* C12 witness: an invocation that found no file has gathered both required
\* fields and reached the launch step.
C12_Witness ==
  /\ fileAtStart.kind = "absent"
  /\ launched
  /\ gathered = {"dockerSocket", "externalIP"}

\* C17: getDockerSocketPath probes the candidates in list order, one after
\* the other, every probe before the last one failed, and a returned path is
\* the candidate probed last, so nothing after it was probed.
C17_SequentialFirstMatch ==
  LET paths == defaultSocketPaths(platform)
  IN  /\ Len(sockLog) <= Len(paths)
      /\ \A i \in DOMAIN sockLog :
           /\ sockLog[i].path = paths[i]
           /\ i < Len(sockLog) => sockLog[i].status # 0
      /\ pc = "sockProbe" =>
           /\ sockIdx = Len(sockLog) + 1
           /\ \A i \in DOMAIN sockLog : sockLog[i].status # 0
      /\ sockResult \notin {Undef, Null} =>
           /\ sockLog[Len(sockLog)].path = sockResult
           /\ sockLog[Len(sockLog)].status = 0
      /\ sockResult = Null => Len(sockLog) = Len(paths)

\* C17 witness: the third candidate validated after two failures and the
\* remaining candidates were left alone.
C17_Witness ==
  /\ sockResult = "~/.docker/desktop/docker.sock"
  /\ Len(sockLog) = 3
  /\ Len(defaultSocketPaths(platform)) = 6

\* C20: a field that is present in the loaded configuration has no
\* discovery and no prompt during Gather, and keeps its loaded value in the
\* record that is written and in the record handed to the launch step (the
\* address replaced by the revalidation prompt is left out of the comparison).
C20_PresentFieldsUntouched ==
  \A f \in {"dockerSocket", "sshKeysDir", "externalIP"} :
    (fileAtStart.kind = "object" /\ ~Falsy(Loaded[f])) =>
      /\ f \notin Prompted
      /\ f \notin gathered
      /\ f = "dockerSocket" => sockLog = << >>
      /\ writes > 0 => file[f] = Loaded[f]
      /\ (launched /\ "replaceIP" \notin Prompted) => handed[f] = Loaded[f]

\* C14: a process that exits on a build failure or on a launch failure has
\* attempted podman after the failed docker attempt of that step, whether
\* docker could not be spawned or exited non-zero.
C14_BothRuntimesAttempted ==
  pc = "exited" =>
    /\ ("docker build" \in {steps[i] : i \in DOMAIN steps} /\ runLog = << >>)
         => "podman build" \in {steps[i] : i \in DOMAIN steps}
    /\ (runLog # << >> /\ (runLog[1].error \/ runLog[1].status # 0))
         => (Len(runLog) = 2 /\ runLog[2].cmd = "podman")

\* C15: a terminated process has exit status 0 exactly when the container
\* run ended with status 0; a non-zero status s of the container run is the
\* exit status; a missing mandatory field and a build failure give 1; no
\* fatal path ends with 0.
C15_ExitStatus ==
  Terminated =>
    LET ran == runLog # << >>
        last == runLog[Len(runLog)]
    IN  /\ exitCode = 0 <=> (ran /\ last.status = 0)
        /\ (ran /\ last.status \notin {0, NullStatus}) => exitCode = last.status
        /\ (ran /\ last.status = NullStatus) => exitCode = 1
        /\ ~ran => (pc = "exited" /\ exitCode = 1)
        /\ pc = "exited" => exitCode # 0
        /\ pc = "done" => exitCode = 0

C15_Witness ==
  /\ pc = "exited"
  /\ exitCode = 125
  /\ runLog # << >>
  /\ runLog[Len(runLog)].status = 125

\* C16: on a first run (no file) in which socket discovery validated S,
\* address discovery found A, SSH discovery found D and every prompt was
\* answered by accepting its default, the file written is exactly
\* {dockerSocket: S, sshKeysDir: D, externalIP: A} and the launch step
\* received the same three values.
C16_FirstRunEndToEnd ==
  LET S == defaultsTaken.dockerSocket
      A == defaultsTaken.externalIP
      D == config.sshKeysDir
      triple == [dockerSocket |-> S, sshKeysDir |-> D, externalIP |-> A]
  IN  ( /\ fileAtStart.kind = "absent"
        /\ launched
        /\ ~Falsy(S)
        /\ ~Falsy(A)
        /\ "sshKeysDir" \in gathered
        /\ "sshKeysDir" \notin Prompted
        /\ "replaceIP" \in Prompted => defaultsTaken.replaceIP = A )
      => /\ writes = 1
         /\ file = FileOf("object", triple)
         /\ handed = triple

C16_Witness ==
  /\ fileAtStart.kind = "absent"
  /\ launched
  /\ defaultsTaken.dockerSocket = "/var/run/docker.sock"
  /\ defaultsTaken.externalIP = "10.0.0.5"
  /\ config.sshKeysDir = "~/.ssh"
  /\ "sshKeysDir" \notin Prompted
  /\ file = FileOf("object", handed)
  /\ pc = "done"

\* C18: when getExternalIP has returned: if some interface whose lower-cased
\* name starts with a priority prefix has a non-internal IPv4 address, the
\* first pass returned the first such address of the interface that comes
\* first by priority and then by enumeration order, whatever non-priority
\* interface precedes it; the second pass returned only when no priority
\* interface has such an address, and then the first one in enumeration
\* order; the command-line fallback was used only when no interface has one
\* or enumeration threw.
C18_TwoPassScan ==
  LET list == nets.list
      External(i) ==
        {k \in DOMAIN list[i].addrs :
           list[i].addrs[k].family = "IPv4" /\ ~list[i].addrs[k].internal}
      FirstExternal(i) ==
        list[i].addrs[CHOOSE k \in External(i) : \A m \in External(i) : k <= m].address
      Ranks(i) ==
        {r \in DOMAIN interfacePriority :
           startsWith(toLowerCase(list[i].name), interfacePriority[r])}
      Rank(i) == CHOOSE r \in Ranks(i) : \A q \in Ranks(i) : r <= q
      any == {i \in DOMAIN list : External(i) # {}}
      prio == {i \in any : Ranks(i) # {}}
  IN  /\ netPc = "cmdline" => (nets.threw \/ any = {})
      /\ netPc = "returned" =>
           /\ (~nets.threw /\ prio # {}) =>
                /\ netPass = "first"
                /\ \E i \in prio :
                     /\ netResult = FirstExternal(i)
                     /\ \A j \in prio :
                          Rank(i) < Rank(j) \/ (Rank(i) = Rank(j) /\ i <= j)
           /\ netPass = "first" => (~nets.threw /\ prio # {})
           /\ netPass = "second" <=> (~nets.threw /\ prio = {} /\ any # {})
           /\ netPass = "second" =>
                netResult = FirstExternal(CHOOSE i \in any : \A j \in any : i <= j)
           /\ netPass \in {"cmdline", "none"} <=> (nets.threw \/ any = {})

C18_Witness ==
  /\ netPc = "returned"
  /\ netPass = "first"
  /\ Len(nets.list) = 3
  /\ nets.list[1].name = "docker0"
  /\ nets.list[2].name = "Wlan0"
  /\ nets.list[3].name = "eth0"
  /\ netResult = "10.0.0.5"

\* C19: an address returned by the command-line fallback, whatever command
\* gave it, starts neither with 127. nor with 169.254.
C19_FallbackExcludesRanges ==
  (netPc = "returned" /\ netPass = "cmdline") =>
    /\ ~startsWith(netResult, "127.")
    /\ ~startsWith(netResult, "169.254.")

C21_FormatGate ==
  LET Value(d) ==
        CASE d = "0" -> 0 [] d = "1" -> 1 [] d = "2" -> 2 [] d = "3" -> 3
          [] d = "4" -> 4 [] d = "5" -> 5 [] d = "6" -> 6 [] d = "7" -> 7
          [] d = "8" -> 8 [] d = "9" -> 9
      Number(ds) ==
        IF Len(ds) = 1 THEN Value(ds[1])
        ELSE IF Len(ds) = 2 THEN 10 * Value(ds[1]) + Value(ds[2])
        ELSE 100 * Value(ds[1]) + 10 * Value(ds[2]) + Value(ds[3])
      IsOctet(ds) ==
        /\ Len(ds) \in 1..3
        /\ \A k \in 1..Len(ds) : ds[k] \in Digits
        /\ Number(ds) <= 255
      parts == SplitDots(Chars(availIp), << >>)
      wellFormed ==
        /\ availIp \notin {Undef, Null, NotAString, ""}
        /\ Len(parts) = 4
        /\ \A i \in 1..4 : IsOctet(parts[i])
  IN  availPc = "returned" =>
        /\ ~wellFormed => (availPings = << >> /\ availReturn = FALSE)
        /\ wellFormed =>
             /\ Len(availPings) = 1
             /\ availPings[1].cmd = "ping"
             /\ availPings[1].args[Len(availPings[1].args)] = availIp

C21_Witness ==
  /\ availPc = "returned"
  /\ availIp = "999.1.1.1"
  /\ availPings = << >>
  /\ availReturn = FALSE

\* C22: once Gather has ended or was skipped, config.externalIP is never
\* empty; the replacement prompt always offers a non-empty default, so its
\* answer cannot empty the address; every launch receives a non-empty
\* externalIP.
C22_AddressNeverEmpty ==
  /\ pc \in {"revalidate", "promptReplace", "launch", "build", "building", "run", "done"}
       => ~Falsy(config.externalIP)
  /\ pc = "promptReplace" => ~Falsy(promptDefault)
  /\ defaultsTaken.replaceIP # Undef => ~Falsy(defaultsTaken.replaceIP)
  /\ launched => (~Falsy(handed.externalIP) /\ handed.externalIP = config.externalIP)

C22_Witness ==
  /\ launched
  /\ "replaceIP" \in Prompted
  /\ defaultsTaken.replaceIP = "10.0.0.9"
  /\ handed.externalIP = "10.0.0.9"

\* C23: within one buildDockerImage call at most one podman build is
\* spawned, and once the promise is settled no build attempt is left running
\* that could settle it again.
C23_SingleFallbackBuild ==
  /\ Len(podmanBuilds) <= 1
  /\ buildPromise \in {"resolved", "rejected"} =>
       \A i \in DOMAIN podmanBuilds : podmanBuilds[i] # "running"

\* C24: a container run is started, or about to be, only when an image
\* inspection found the image (docker's, or podman's after docker's failed)
\* or the build promise was resolved; when no inspection found the image
\* and the build was rejected or no build directory was found, no container
\* run is made and the process exits with status 1.
C24_RunOnlyWithImage ==
  LET found == imageCheck.docker = "found" \/ imageCheck.podman = "found"
      built == buildPromise = "resolved"
  IN  /\ (pc = "run" \/ runLog # << >>) => (launched /\ (found \/ built))
      /\ imageCheck.podman # "notrun" => imageCheck.docker = "missing"
      /\ (launched /\ found) => (buildPromise = "none" /\ pc \in {"run", "done", "exited"})
      /\ (pc = "exited" /\ launched /\ ~found /\ ~built) =>
           /\ runLog = << >>
           /\ exitCode = 1
           /\ buildPromise = "rejected" \/ (buildPromise = "none" /\ dockerBuild = "none")

C24_Witness ==
  /\ pc = "exited"
  /\ launched
  /\ imageCheck = [docker |-> "missing", podman |-> "missing"]
  /\ buildPromise = "none"
  /\ runLog = << >>
  /\ exitCode = 1

\* C25: when every probe returns and every prompt is answered, a run of main
\* eventually has invoked the launch step or has exited, and never both
\* before the launch step acts; the socket candidates are traversed at most
\* once per discovery, and no prompt is issued twice: at most one per field
\* and one for the address replacement.
C25_ReconciliationTerminates ==
  /\ <>(launched \/ pc = "exited")
  /\ [](launched => pc # "exited")
  /\ [](/\ Len(sockLog) <= Len(defaultSocketPaths(platform))
        /\ \A i, j \in DOMAIN sockLog : i # j => sockLog[i].path # sockLog[j].path
        /\ \A i, j \in DOMAIN prompts : i # j => prompts[i] # prompts[j]
        /\ Prompted \subseteq {"dockerSocket", "externalIP", "sshKeysDir", "replaceIP"}
        /\ Len(availLog) <= 1)

C25_Witness ==
  /\ launched
  /\ prompts = <<"dockerSocket", "externalIP", "sshKeysDir", "replaceIP">>

====
